---- MODULE Spec2Model ----
(***************************************************************************)
(* Model of the latency statistics engine of ensign-benchmarks             *)
(* (pkg/stats/latency.go).  A Latencies value embeds a sync.RWMutex and a  *)
(* Statistics accumulator and adds a timeout counter and an externally set *)
(* duration.                                                               *)
(*                                                                         *)
(* Four specifications are given over the same two instances s and o:      *)
(*   SeqSpec  one caller; every method call is one step.                   *)
(*   ReadSpec one caller that feeds s and polls it with the accessors.     *)
(*   Spec     goroutines that share s, while o is a finished worker's      *)
(*            instance; every method is split at its lock operations and   *)
(*            at its field accesses.                                       *)
(*   LiveSpec the goroutines of Spec under a fair scheduler, with Append   *)
(*            called on either instance.                                   *)
(*                                                                         *)
(* Three more specifications model the drivers that feed the engine:       *)
(*   BlastSpec   Blast.Run and Blast.Results (pkg/blast/blast.go), with    *)
(*               the sender and receiver goroutines and the stream.        *)
(*   SustainSpec Sustain.Run (pkg/sustain/sustain.go), with its ticker,    *)
(*               the interrupt signal and the context.                     *)
(*   RunSpec     benchmarks.Run (pkg/benchmark.go), with the client, the   *)
(*               workload and the goroutine that waits for the signal.     *)
(*                                                                         *)
(* Statistics, the embedded accumulator, follows section 4.1 of the        *)
(* specification (online mean and sum of squared deviations).              *)
(*                                                                         *)
(* float64 seconds are modelled as exact rationals <<num, den>>, and       *)
(* time.Duration as an integer number of clock ticks, Second ticks to the  *)
(* second.                                                                 *)
(***************************************************************************)
EXTENDS Integers, Sequences, FiniteSets, TLC

\* ------------------------------------------------------------------ bounds
Second    == 4      \* clock ticks per second (time.Second, scaled down)
MaxDur    == 2      \* largest duration, in ticks, passed to Update
MaxSpan   == 1      \* largest duration, in ticks, passed to SetDuration
MaxBatch  == 2      \* longest argument list of one Update call
MaxHist   == 3      \* most durations passed to Update, or held by one
                    \* instance after Append (SeqSpec)
MaxCalls  == 2      \* method calls made by all goroutines together (Spec)
MaxOps    == 2      \* largest Operations option of a benchmark run
MaxClock  == 3      \* latest reading of the wall clock during a run, in ticks
MaxTicks  == 3      \* ticks the ticker of a sustain run delivers

Insts     == {"s", "o"}     \* the receiver and the donor of the tests
Threads   == {"g1", "g2"}   \* the goroutines that share the instances
Durations == 0..MaxDur
Spans     == 0..MaxSpan
Batches   == UNION {[1..n -> Durations] : n \in 1..MaxBatch}
\* Spec: the goroutines share s; o is a finished worker's instance that
\* holds nothing, a sample, a timeout, or both
Shared      == {"s"}
ConcBatches == UNION {[1..n -> {0, 1}] : n \in 1..MaxBatch}
ConcSpans   == {1}
Seeds       == {<<>>, <<1>>, <<0>>, <<1, 0>>}

\* ------------------------------------------------ exact rational arithmetic
RECURSIVE GCD(_, _)
GCD(a, b) == IF b = 0 THEN a ELSE GCD(b, a % b)

Abs(n) == IF n < 0 THEN 0 - n ELSE n

\* the rational n/d in lowest terms with a positive denominator.  A float64
\* division by zero raises no fault: n/0 is +Inf <<1, 0>> or -Inf <<-1, 0>>,
\* and 0/0 is NaN <<0, 0>>
Norm(n, d) ==
    LET sn == IF d < 0 THEN 0 - n ELSE n
        sd == Abs(d)
        g  == GCD(Abs(sn), sd)
    IN  IF g = 0 THEN <<0, 0>> ELSE <<sn \div g, sd \div g>>

\* a float64 that is neither an infinity nor NaN
Finite(x) == x[2] > 0

RZero      == <<0, 1>>
RInt(k)    == <<k, 1>>
RAdd(a, b) == Norm(a[1] * b[2] + b[1] * a[2], a[2] * b[2])
RSub(a, b) == Norm(a[1] * b[2] - b[1] * a[2], a[2] * b[2])
RMul(a, b) == Norm(a[1] * b[1], a[2] * b[2])
RDiv(a, b) == Norm(a[1] * b[2], a[2] * b[1])
RLt(a, b)  == a[1] * b[2] < b[1] * a[2]
RMin(a, b) == IF RLt(b, a) THEN b ELSE a
RMax(a, b) == IF RLt(a, b) THEN b ELSE a

\* time.Duration.Seconds(): ticks to float64 seconds
Seconds(d) == Norm(d, Second)

\* castSeconds: float64 seconds to a time.Duration; the conversion of a
\* float64 to an integer truncates towards zero
castSeconds(x) ==
    LET n == Second * x[1]
    IN  IF n >= 0 THEN n \div x[2] ELSE 0 - ((0 - n) \div x[2])

\* castSeconds(math.Sqrt(x)) for x >= 0: the largest k with (k/Second)^2 <= x
castSqrtSeconds(x) ==
    LET n == Second * Second * x[1]
    IN  CHOOSE k \in 0..(n + 1) :
            /\ k * k * x[2] <= n
            /\ (k + 1) * (k + 1) * x[2] > n

\* ------------------------------------------------- Statistics (accumulator)
ZeroStatistics ==
    [samples |-> 0, mean |-> RZero, m2 |-> RZero,
     min |-> RZero, max |-> RZero, total |-> RZero]

\* Statistics.Update(value): one step of the online algorithm
StatisticsUpdate(st, x) ==
    LET count   == st.samples + 1
        delta   == RSub(x, st.mean)
        newMean == RAdd(st.mean, RDiv(delta, RInt(count)))
    IN  [samples |-> count,
         mean    |-> newMean,
         m2      |-> RAdd(st.m2, RMul(delta, RSub(x, newMean))),
         min     |-> IF count = 1 THEN x ELSE RMin(st.min, x),
         max     |-> IF count = 1 THEN x ELSE RMax(st.max, x),
         total   |-> RAdd(st.total, x)]

\* a combination that subtracts the spread between the two means
StatisticsAppendSubtractsSpread(st, o) ==
    LET n     == st.samples + o.samples
        delta == RSub(o.mean, st.mean)
    IN  IF n = 0 THEN st
        ELSE [samples |-> n,
              mean    |-> RAdd(st.mean,
                               RDiv(RMul(delta, RInt(o.samples)), RInt(n))),
              m2      |-> RSub(RAdd(st.m2, o.m2),
                               RDiv(RMul(RMul(delta, delta),
                                         RInt(st.samples * o.samples)),
                                    RInt(n))),
              min     |-> IF st.samples = 0 THEN o.min
                          ELSE IF o.samples = 0 THEN st.min
                          ELSE RMin(st.min, o.min),
              max     |-> IF st.samples = 0 THEN o.max
                          ELSE IF o.samples = 0 THEN st.max
                          ELSE RMax(st.max, o.max),
              total   |-> RAdd(st.total, o.total)]

\* Statistics.Append(other): parallel combination of two accumulators
StatisticsAppend(st, o) ==
    LET n     == st.samples + o.samples
        delta == RSub(o.mean, st.mean)
    IN  IF n = 0 THEN st
        ELSE [samples |-> n,
              mean    |-> RAdd(st.mean,
                               RDiv(RMul(delta, RInt(o.samples)), RInt(n))),
              m2      |-> RAdd(RAdd(st.m2, o.m2),
                               RDiv(RMul(RMul(delta, delta),
                                         RInt(st.samples * o.samples)),
                                    RInt(n))),
              min     |-> IF st.samples = 0 THEN o.min
                          ELSE IF o.samples = 0 THEN st.min
                          ELSE RMin(st.min, o.min),
              max     |-> IF st.samples = 0 THEN o.max
                          ELSE IF o.samples = 0 THEN st.max
                          ELSE RMax(st.max, o.max),
              total   |-> RAdd(st.total, o.total)]

StatisticsMean(st) == IF st.samples > 0 THEN st.mean ELSE RZero

StatisticsVariance(st) ==
    IF st.samples > 1 THEN RDiv(st.m2, RInt(st.samples - 1)) ELSE RZero

StatisticsMinimum(st) == IF st.samples > 0 THEN st.min ELSE RZero

StatisticsMaximum(st) == IF st.samples > 0 THEN st.max ELSE RZero

StatisticsRange(st) ==
    IF st.samples < 1 THEN RZero
    ELSE RSub(StatisticsMaximum(st), StatisticsMinimum(st))

\* ------------------------------------------------------------- Latencies
\* the zero value &stats.Latencies{}
ZeroLatencies ==
    [stats |-> ZeroStatistics, timeouts |-> 0, duration |-> 0]

\* a loop body without the continue: a timeout is also taken as a sample
UpdateOneSamplesTimeout(l, d) ==
    IF d = 0
    THEN [l EXCEPT !.timeouts = @ + 1,
                   !.stats = StatisticsUpdate(@, Seconds(d))]
    ELSE [l EXCEPT !.stats = StatisticsUpdate(@, Seconds(d))]

\* a loop body that skips a zero duration without counting it
UpdateOneForgetsTimeout(l, d) ==
    IF d = 0
    THEN l
    ELSE [l EXCEPT !.stats = StatisticsUpdate(@, Seconds(d))]

\* body of the loop of Latencies.Update for one duration
UpdateOne(l, d) ==
    IF d = 0
    THEN [l EXCEPT !.timeouts = @ + 1]
    ELSE [l EXCEPT !.stats = StatisticsUpdate(@, Seconds(d))]

\* a loop that leaves at the first timeout instead of continuing
RECURSIVE UpdateLeavesAtTimeout(_, _)
UpdateLeavesAtTimeout(l, durations) ==
    IF durations = <<>> THEN l
    ELSE IF Head(durations) = 0 THEN UpdateOne(l, 0)
    ELSE UpdateLeavesAtTimeout(UpdateOne(l, Head(durations)), Tail(durations))

\* Latencies.Update(durations...): the loop over the argument list
RECURSIVE Update(_, _)
Update(l, durations) ==
    IF durations = <<>> THEN l
    ELSE Update(UpdateOne(l, Head(durations)), Tail(durations))

\* a SetDuration that adds the span to the one recorded before
SetDurationAccumulates(l, duration) == [l EXCEPT !.duration = @ + duration]

\* Latencies.SetDuration
SetDuration(l, duration) == [l EXCEPT !.duration = duration]

\* a throughput that takes the timeouts for samples
throughputCountsTimeouts(l) ==
    LET n == l.stats.samples + l.timeouts
    IN  IF n > 0 /\ l.duration > 0
        THEN RDiv(RInt(n), Seconds(l.duration))
        ELSE IF n > 0 /\ RLt(RZero, l.stats.total)
        THEN RDiv(RInt(n), l.stats.total)
        ELSE RZero

\* a throughput that divides without looking at the count and the divisor
throughputUnguarded(l) ==
    IF l.duration > 0
    THEN RDiv(RInt(l.stats.samples), Seconds(l.duration))
    ELSE RDiv(RInt(l.stats.samples), l.stats.total)

\* a throughput that prefers the sum of the samples to the set duration
throughputTotalFirst(l) ==
    IF l.stats.samples > 0 /\ RLt(RZero, l.stats.total)
    THEN RDiv(RInt(l.stats.samples), l.stats.total)
    ELSE IF l.stats.samples > 0 /\ l.duration > 0
    THEN RDiv(RInt(l.stats.samples), Seconds(l.duration))
    ELSE RZero

\* a throughput that returns the seconds per sample, not the samples per second
throughputSecondsPerSample(l) ==
    IF l.stats.samples > 0 /\ l.duration > 0
    THEN RDiv(Seconds(l.duration), RInt(l.stats.samples))
    ELSE IF l.stats.samples > 0 /\ RLt(RZero, l.stats.total)
    THEN RDiv(l.stats.total, RInt(l.stats.samples))
    ELSE RZero

\* Latencies.throughput
throughput(l) ==
    IF l.stats.samples > 0 /\ l.duration > 0
    THEN RDiv(RInt(l.stats.samples), Seconds(l.duration))
    ELSE IF l.stats.samples > 0 /\ RLt(RZero, l.stats.total)
    THEN RDiv(RInt(l.stats.samples), l.stats.total)
    ELSE RZero

ltotal(l)   == castSeconds(l.stats.total)
mean(l)     == castSeconds(StatisticsMean(l.stats))
variance(l) == castSeconds(StatisticsVariance(l.stats))
stddev(l)   == castSqrtSeconds(StatisticsVariance(l.stats))

\* a Slowest that asks the accumulator for its range
slowestReadsRange(l) == castSeconds(StatisticsRange(l.stats))

slowest(l)  == castSeconds(StatisticsMaximum(l.stats))
fastest(l)  == castSeconds(StatisticsMinimum(l.stats))
lrange(l)   == castSeconds(StatisticsRange(l.stats))

\* the exported accessors: each returns its helper's value under the read lock
Throughput(l) == throughput(l)
Total(l)      == ltotal(l)
Timeouts(l)   == l.timeouts
Mean(l)       == mean(l)
Variance(l)   == variance(l)
StdDev(l)     == stddev(l)
Slowest(l)    == slowest(l)
Fastest(l)    == fastest(l)
Range(l)      == lrange(l)

\* the values MarshalJSON puts in its map, read from one state
MarshalJSON(l) ==
    [samples    |-> l.stats.samples,
     total      |-> ltotal(l),
     mean       |-> mean(l),
     stddev     |-> stddev(l),
     variance   |-> variance(l),
     fastest    |-> fastest(l),
     slowest    |-> slowest(l),
     range      |-> lrange(l),
     throughput |-> throughput(l),
     duration   |-> l.duration,
     timeouts   |-> l.timeouts]

\* json.Marshal(data) returns an UnsupportedValueError, and MarshalJSON with
\* it, when a float64 of the map is an infinity or NaN
MarshalJSONError(l) == ~Finite(throughput(l))

\* an Append that also takes the donor's duration
LatenciesAppendCopiesDuration(s, o) ==
    [s EXCEPT !.stats = StatisticsAppend(@, o.stats),
              !.timeouts = @ + o.timeouts,
              !.duration = o.duration]

\* an Append that returns early when the donor holds no samples
LatenciesAppendSkipsWithoutSamples(s, o) ==
    IF o.stats.samples = 0 THEN s
    ELSE [s EXCEPT !.stats = StatisticsAppend(@, o.stats),
                   !.timeouts = @ + o.timeouts]

\* an Append that merges the accumulators but leaves the receiver's total
LatenciesAppendKeepsTotal(s, o) ==
    [s EXCEPT !.stats = [StatisticsAppend(@, o.stats) EXCEPT
                             !.total = s.stats.total],
              !.timeouts = @ + o.timeouts]

\* an Append that overwrites the timeout counter with the donor's
LatenciesAppendAssignsTimeouts(s, o) ==
    [s EXCEPT !.stats = StatisticsAppend(@, o.stats),
              !.timeouts = o.timeouts]

\* an Append that forgets the donor's timeouts
LatenciesAppendDropsTimeouts(s, o) ==
    [s EXCEPT !.stats = StatisticsAppend(@, o.stats)]

\* Latencies.Append(o)
LatenciesAppend(s, o) ==
    [s EXCEPT !.stats = StatisticsAppend(@, o.stats),
              !.timeouts = @ + o.timeouts]

\* ------------------------------------------------------------------ state
VARIABLES
    lat,      \* lat[i]: the fields of Latencies instance i
    hist,     \* hist[i]: every duration ingested by instance i, in order
    last,     \* the method call made by the latest step
    ret,      \* what that call returned
    rw,       \* rw[i]: the sync.RWMutex of instance i
    pc,       \* pc[t]: where goroutine t stands in the method it is running
    loc,      \* loc[t]: the receiver, arguments and locals of that method
    calls,    \* the method calls the goroutines have made
    merged,   \* the instances that have been the receiver of an Append
    quiet,    \* quiet[i]: lat[i] when no mutating method was last inside i
    cands,    \* cands[t]: the values of quiet seen while t reads an instance
    bench,    \* the call of benchmarks.Run(ctx, bench) and its collaborators
    sustain,  \* the call of Sustain.Run(ctx): its locals, ticker and client
    blast     \* the call of Blast.Run(ctx): its locals, goroutines and stream

seqVars  == <<last, ret>>
concVars == <<rw, pc, loc, calls, merged, quiet, cands>>
driverVars == <<bench, sustain, blast>>
vars     == <<lat, hist, last, ret, rw, pc, loc, calls, merged, quiet, cands,
              bench, sustain, blast>>

NoCall   == [op |-> "none", inst |-> "", other |-> "", n |-> 0]
NoReturn == <<>>
NoThread == ""
NoLocal  == [inst |-> "", other |-> "", ds |-> <<>>, k |-> 0,
             tmp |-> <<>>, snap |-> <<>>]

\* a driver that has not been called
NoRun == [pc |-> "none"]

\* no benchmark driver is running
DriversIdle == bench = NoRun /\ sustain = NoRun /\ blast = NoRun

\* no goroutine has started
ConcInit ==
    /\ rw     = [i \in Insts |-> [writer |-> NoThread, readers |-> {}]]
    /\ pc     = [t \in Threads |-> "idle"]
    /\ loc    = [t \in Threads |-> NoLocal]
    /\ calls  = 0
    /\ merged = {}
    /\ quiet  = [i \in Insts |-> ZeroLatencies]
    /\ cands  = [t \in Threads |-> {}]

\* ------------------------------------------------- SeqSpec: a single caller
SeqInit ==
    /\ lat  = [i \in Insts |-> ZeroLatencies]
    /\ hist = [i \in Insts |-> <<>>]
    /\ last = NoCall
    /\ ret  = NoReturn
    /\ ConcInit
    /\ DriversIdle

\* s.Update(ds...)
SeqUpdate(i, ds) ==
    /\ Len(hist["s"]) + Len(hist["o"]) + Len(ds) <= MaxHist
    /\ lat'  = [lat EXCEPT ![i] = Update(@, ds)]
    /\ hist' = [hist EXCEPT ![i] = @ \o ds]
    /\ last' = [op |-> "Update", inst |-> i, other |-> "", n |-> Len(ds)]
    /\ ret'  = NoReturn
    /\ UNCHANGED <<concVars, driverVars>>

\* s.SetDuration(d)
SeqSetDuration(i, d) ==
    /\ lat'  = [lat EXCEPT ![i] = SetDuration(@, d)]
    /\ last' = [op |-> "SetDuration", inst |-> i, other |-> "", n |-> d]
    /\ ret'  = NoReturn
    /\ UNCHANGED <<hist, concVars, driverVars>>

\* an Append that moves the donor's state into the receiver and leaves the
\* donor empty
SeqAppendDrainsDonor(s, o) ==
    /\ s # o
    /\ Len(hist[s]) + Len(hist[o]) <= MaxHist
    /\ lat'  = [lat EXCEPT ![s] = LatenciesAppend(@, lat[o]),
                           ![o] = ZeroLatencies]
    /\ hist' = [hist EXCEPT ![s] = @ \o hist[o], ![o] = <<>>]
    /\ last' = [op |-> "Append", inst |-> s, other |-> o, n |-> 0]
    /\ ret'  = NoReturn
    /\ UNCHANGED <<concVars, driverVars>>

\* s.Append(o)
SeqAppend(s, o) ==
    /\ s # o
    /\ Len(hist[s]) + Len(hist[o]) <= MaxHist
    /\ lat'  = [lat EXCEPT ![s] = LatenciesAppend(@, lat[o])]
    /\ hist' = [hist EXCEPT ![s] = @ \o hist[o]]
    /\ last' = [op |-> "Append", inst |-> s, other |-> o, n |-> 0]
    /\ ret'  = NoReturn
    /\ UNCHANGED <<concVars, driverVars>>

\* json.Marshal(s)
SeqMarshalJSON(i) ==
    /\ last' = [op |-> "MarshalJSON", inst |-> i, other |-> "", n |-> 0]
    /\ ret'  = IF MarshalJSONError(lat[i])
               THEN [err |-> "json: unsupported value"]
               ELSE MarshalJSON(lat[i])
    /\ UNCHANGED <<lat, hist, concVars, driverVars>>

SeqNext ==
    \/ \E i \in Insts, ds \in Batches : SeqUpdate(i, ds)
    \/ \E i \in Insts, d \in Spans : SeqSetDuration(i, d)
    \/ \E s \in Insts, o \in Insts : SeqAppend(s, o)
    \/ \E i \in Insts : SeqMarshalJSON(i)

SeqSpec == SeqInit /\ [][SeqNext]_vars

\* ------------------------------------ ReadSpec: a caller that polls s
\* the exported read accessors
Accessors ==
    {"Throughput", "Total", "Timeouts", "Mean", "Variance", "StdDev",
     "Slowest", "Fastest", "Range"}

\* the instance the polling caller feeds and reads
Polled == {"s"}

\* what accessor m returns for the fields l
Accessor(m, l) ==
    CASE m = "Throughput" -> Throughput(l)
      [] m = "Total"      -> Total(l)
      [] m = "Timeouts"   -> Timeouts(l)
      [] m = "Mean"       -> Mean(l)
      [] m = "Variance"   -> Variance(l)
      [] m = "StdDev"     -> StdDev(l)
      [] m = "Slowest"    -> Slowest(l)
      [] m = "Fastest"    -> Fastest(l)
      [] m = "Range"      -> Range(l)

\* a Timeouts that hands the counter out and starts it again at zero
SeqReadResetsTimeouts(i, m) ==
    /\ last' = [op |-> m, inst |-> i, other |-> "", n |-> 0]
    /\ ret'  = Accessor(m, lat[i])
    /\ lat'  = IF m = "Timeouts" THEN [lat EXCEPT ![i].timeouts = 0] ELSE lat
    /\ UNCHANGED <<hist, concVars, driverVars>>

\* s.Mean(), s.Range(), ...: the accessor takes the read lock, returns what
\* its helper computes and assigns to no field
SeqRead(i, m) ==
    /\ last' = [op |-> m, inst |-> i, other |-> "", n |-> 0]
    /\ ret'  = Accessor(m, lat[i])
    /\ UNCHANGED <<lat, hist, concVars, driverVars>>

ReadNext ==
    \/ \E i \in Polled, ds \in Batches : SeqUpdate(i, ds)
    \/ \E i \in Polled, d \in Spans : SeqSetDuration(i, d)
    \/ \E i \in Polled, m \in Accessors : SeqRead(i, m)
    \/ \E i \in Polled : SeqMarshalJSON(i)

ReadSpec == SeqInit /\ [][ReadNext]_vars

\* ---------------------------------------------- Spec: concurrent goroutines
\* where a goroutine is inside a method that writes the fields of its receiver
MutatingPcs ==
    {"Update:load", "Update:store", "Update:Unlock",
     "SetDuration:store", "SetDuration:Unlock", "Append:timeouts"}

\* where a goroutine is inside a method that reads the fields of its receiver
ReadingPcs ==
    {"MarshalJSON:stats", "MarshalJSON:rest", "MarshalJSON:RUnlock"}

\* a Lock that never waits
CanLockNeverWaits(i) == TRUE

\* sync.RWMutex.Lock returns once no writer and no reader holds the mutex
CanLock(i) == rw[i].writer = NoThread /\ rw[i].readers = {}

\* an RLock that never waits
CanRLockNeverWaits(i) == TRUE

\* sync.RWMutex.RLock returns once no writer holds the mutex
CanRLock(i) == rw[i].writer = NoThread

\* s is fresh; o holds what a finished worker has ingested
Init ==
    /\ \E ds \in Seeds :
           /\ hist  = [i \in Insts |-> IF i = "o" THEN ds ELSE <<>>]
           /\ lat   = [i \in Insts |-> Update(ZeroLatencies, hist[i])]
           /\ quiet = lat
    /\ last   = NoCall
    /\ ret    = NoReturn
    /\ rw     = [i \in Insts |-> [writer |-> NoThread, readers |-> {}]]
    /\ pc     = [t \in Threads |-> "idle"]
    /\ loc    = [t \in Threads |-> NoLocal]
    /\ calls  = 0
    /\ merged = {}
    /\ cands  = [t \in Threads |-> {}]
    /\ DriversIdle

\* every step ends here: the new values of the program's state, and what the
\* history variables quiet and cands record of them
Commit(nlat, nrw, npc, nloc) ==
    LET nquiet == [i \in Insts |->
                     IF \E u \in Threads :
                            npc[u] \in MutatingPcs /\ nloc[u].inst = i
                     THEN quiet[i] ELSE nlat[i]]
    IN  /\ lat'   = nlat
        /\ rw'    = nrw
        /\ pc'    = npc
        /\ loc'   = nloc
        /\ quiet' = nquiet
        /\ cands' = [u \in Threads |->
                       IF npc[u] \in ReadingPcs
                       THEN (IF pc[u] \in ReadingPcs THEN cands[u] ELSE {})
                                \union {quiet[nloc[u].inst],
                                        nquiet[nloc[u].inst]}
                       ELSE {}]
        /\ UNCHANGED <<seqVars, driverVars>>

\* a goroutine calls s.Update(ds...)
UpdateCall(t, i, ds) ==
    /\ pc[t] = "idle" /\ calls < MaxCalls
    /\ Commit(lat, rw,
              [pc EXCEPT ![t] = "Update:Lock"],
              [loc EXCEPT ![t] = [NoLocal EXCEPT !.inst = i, !.ds = ds,
                                                 !.k = 1]])
    /\ calls' = calls + 1
    /\ UNCHANGED <<hist, merged>>

\* Update: s.Lock() returns
UpdateLock(t) ==
    /\ pc[t] = "Update:Lock"
    /\ CanLock(loc[t].inst)
    /\ Commit(lat,
              [rw EXCEPT ![loc[t].inst].writer = t],
              [pc EXCEPT ![t] = "Update:load"],
              loc)
    /\ hist' = [hist EXCEPT ![loc[t].inst] = @ \o loc[t].ds]
    /\ UNCHANGED <<calls, merged>>

\* Update: the loop body reads the fields it is about to change
UpdateLoad(t) ==
    /\ pc[t] = "Update:load"
    /\ Commit(lat, rw,
              [pc EXCEPT ![t] = "Update:store"],
              [loc EXCEPT ![t].tmp = lat[loc[t].inst]])
    /\ UNCHANGED <<hist, calls, merged>>

\* Update: the loop body writes s.timeouts, or the fields of s.Statistics
UpdateStore(t) ==
    /\ pc[t] = "Update:store"
    /\ LET i == loc[t].inst
           d == loc[t].ds[loc[t].k]
           n == UpdateOne(loc[t].tmp, d)
       IN  Commit([lat EXCEPT ![i] =
                      IF d = 0 THEN [@ EXCEPT !.timeouts = n.timeouts]
                               ELSE [@ EXCEPT !.stats = n.stats]],
                  rw,
                  [pc EXCEPT ![t] = IF loc[t].k < Len(loc[t].ds)
                                    THEN "Update:load" ELSE "Update:Unlock"],
                  [loc EXCEPT ![t].k = @ + 1, ![t].tmp = <<>>])
    /\ UNCHANGED <<hist, calls, merged>>

\* a goroutine calls s.SetDuration(d)
SetDurationCall(t, i, d) ==
    /\ pc[t] = "idle" /\ calls < MaxCalls
    /\ Commit(lat, rw,
              [pc EXCEPT ![t] = "SetDuration:Lock"],
              [loc EXCEPT ![t] = [NoLocal EXCEPT !.inst = i, !.ds = <<d>>]])
    /\ calls' = calls + 1
    /\ UNCHANGED <<hist, merged>>

\* SetDuration: s.Lock() returns
SetDurationLock(t) ==
    /\ pc[t] = "SetDuration:Lock"
    /\ CanLock(loc[t].inst)
    /\ Commit(lat,
              [rw EXCEPT ![loc[t].inst].writer = t],
              [pc EXCEPT ![t] = "SetDuration:store"],
              loc)
    /\ UNCHANGED <<hist, calls, merged>>

\* SetDuration: s.duration = duration
SetDurationStore(t) ==
    /\ pc[t] = "SetDuration:store"
    /\ Commit([lat EXCEPT ![loc[t].inst] = SetDuration(@, loc[t].ds[1])],
              rw,
              [pc EXCEPT ![t] = "SetDuration:Unlock"],
              loc)
    /\ UNCHANGED <<hist, calls, merged>>

\* a return without the deferred Unlock: the mutex stays locked
UnlockKeepsMutex(t) ==
    /\ pc[t] \in {"Update:Unlock", "SetDuration:Unlock"}
    /\ Commit(lat, rw,
              [pc EXCEPT ![t] = "idle"],
              [loc EXCEPT ![t] = NoLocal])
    /\ UNCHANGED <<hist, calls, merged>>

\* Update and SetDuration: the deferred s.Unlock(), and the return
Unlock(t) ==
    /\ pc[t] \in {"Update:Unlock", "SetDuration:Unlock"}
    /\ Commit(lat,
              [rw EXCEPT ![loc[t].inst].writer = NoThread],
              [pc EXCEPT ![t] = "idle"],
              [loc EXCEPT ![t] = NoLocal])
    /\ UNCHANGED <<hist, calls, merged>>

\* a goroutine calls s.Append(o): s.Statistics.Append(&o.Statistics) runs;
\* no lock is taken
AppendStatistics(t, s, o) ==
    /\ pc[t] = "idle" /\ calls < MaxCalls
    /\ s # o
    /\ Commit([lat EXCEPT ![s].stats = StatisticsAppend(@, lat[o].stats)],
              rw,
              [pc EXCEPT ![t] = "Append:timeouts"],
              [loc EXCEPT ![t] = [NoLocal EXCEPT !.inst = s, !.other = o]])
    /\ hist'   = [hist EXCEPT ![s] = @ \o hist[o]]
    /\ merged' = merged \union {s}
    /\ calls' = calls + 1

\* Append: s.timeouts += o.timeouts, and the return
AppendTimeouts(t) ==
    /\ pc[t] = "Append:timeouts"
    /\ LET s == loc[t].inst
           o == loc[t].other
       IN  Commit([lat EXCEPT ![s].timeouts =
                       LatenciesAppend(lat[s], lat[o]).timeouts],
                  rw,
                  [pc EXCEPT ![t] = "idle"],
                  [loc EXCEPT ![t] = NoLocal])
    /\ UNCHANGED <<hist, calls, merged>>

\* a goroutine calls json.Marshal(s)
MarshalCall(t, i) ==
    /\ pc[t] = "idle" /\ calls < MaxCalls
    /\ Commit(lat, rw,
              [pc EXCEPT ![t] = "MarshalJSON:RLock"],
              [loc EXCEPT ![t] = [NoLocal EXCEPT !.inst = i]])
    /\ calls' = calls + 1
    /\ UNCHANGED <<hist, merged>>

\* MarshalJSON: s.RLock() returns
MarshalRLock(t) ==
    /\ pc[t] = "MarshalJSON:RLock"
    /\ CanRLock(loc[t].inst)
    /\ Commit(lat,
              [rw EXCEPT ![loc[t].inst].readers = @ \union {t}],
              [pc EXCEPT ![t] = "MarshalJSON:stats"],
              loc)
    /\ UNCHANGED <<hist, calls, merged>>

\* MarshalJSON: data["samples"] to data["throughput"] are read and computed
MarshalStats(t) ==
    /\ pc[t] = "MarshalJSON:stats"
    /\ Commit(lat, rw,
              [pc EXCEPT ![t] = "MarshalJSON:rest"],
              [loc EXCEPT ![t].snap = MarshalJSON(lat[loc[t].inst])])
    /\ UNCHANGED <<hist, calls, merged>>

\* MarshalJSON: data["duration"] and data["timeouts"] are read
MarshalRest(t) ==
    /\ pc[t] = "MarshalJSON:rest"
    /\ Commit(lat, rw,
              [pc EXCEPT ![t] = "MarshalJSON:RUnlock"],
              [loc EXCEPT ![t].snap =
                  [@ EXCEPT !.duration = lat[loc[t].inst].duration,
                            !.timeouts = lat[loc[t].inst].timeouts]])
    /\ UNCHANGED <<hist, calls, merged>>

\* MarshalJSON: the deferred s.RUnlock(), and the return
MarshalRUnlock(t) ==
    /\ pc[t] = "MarshalJSON:RUnlock"
    /\ Commit(lat,
              [rw EXCEPT ![loc[t].inst].readers = @ \ {t}],
              [pc EXCEPT ![t] = "idle"],
              [loc EXCEPT ![t] = NoLocal])
    /\ UNCHANGED <<hist, calls, merged>>

Next ==
    \/ \E t \in Threads, i \in Shared, ds \in ConcBatches : UpdateCall(t, i, ds)
    \/ \E t \in Threads : UpdateLock(t)
    \/ \E t \in Threads : UpdateLoad(t)
    \/ \E t \in Threads : UpdateStore(t)
    \/ \E t \in Threads, i \in Shared, d \in ConcSpans : SetDurationCall(t, i, d)
    \/ \E t \in Threads : SetDurationLock(t)
    \/ \E t \in Threads : SetDurationStore(t)
    \/ \E t \in Threads : Unlock(t)
    \/ \E t \in Threads, s \in Shared, o \in Insts : AppendStatistics(t, s, o)
    \/ \E t \in Threads : AppendTimeouts(t)
    \/ \E t \in Threads, i \in Shared : MarshalCall(t, i)
    \/ \E t \in Threads : MarshalRLock(t)
    \/ \E t \in Threads : MarshalStats(t)
    \/ \E t \in Threads : MarshalRest(t)
    \/ \E t \in Threads : MarshalRUnlock(t)

Spec == Init /\ [][Next]_vars

\* ------------------------------- LiveSpec: the goroutines, fairly scheduled
\* as Next, with Append also called on o: the two instances can be appended
\* into each other at the same time
LiveNext ==
    \/ Next
    \/ \E t \in Threads, s \in Insts, o \in Insts : AppendStatistics(t, s, o)

\* the next step of goroutine t inside the method it has called
Run(t) ==
    \/ UpdateLock(t) \/ UpdateLoad(t) \/ UpdateStore(t)
    \/ SetDurationLock(t) \/ SetDurationStore(t)
    \/ Unlock(t)
    \/ AppendTimeouts(t)
    \/ MarshalRLock(t) \/ MarshalStats(t) \/ MarshalRest(t)
    \/ MarshalRUnlock(t)

\* where a goroutine waits for a mutex
LockPcs == {"Update:Lock", "SetDuration:Lock", "MarshalJSON:RLock"}

\* Run(t) is enabled: goroutine t is inside a method, and the mutex it waits
\* for, if it waits for one, is free for it
CanRun(t) ==
    \/ pc[t] \in {"Update:Lock", "SetDuration:Lock"} /\ CanLock(loc[t].inst)
    \/ pc[t] = "MarshalJSON:RLock" /\ CanRLock(loc[t].inst)
    \/ pc[t] \notin LockPcs \union {"idle"}

\* a goroutine that waits in Lock or RLock gets the mutex once it stays free
MutexFair(t) ==
    WF_vars(UpdateLock(t) \/ SetDurationLock(t) \/ MarshalRLock(t))

\* the Go scheduler runs every goroutine that can run: weak fairness of the
\* steps of t inside a method body, which are enabled exactly when t stands
\* in that body
SchedulerFair(t) ==
    <>[](pc[t] \notin LockPcs \union {"idle"}) => []<><<Run(t)>>_vars

Fairness == \A t \in Threads : MutexFair(t) /\ SchedulerFair(t)

\* the finished worker's instance o holds a sample and a timeout
LiveInit == Init /\ hist["o"] = <<1, 0>>

LiveSpec == LiveInit /\ [][LiveNext]_vars /\ Fairness

\* --------------------------------------------------- properties under Spec
UpdateBodyPcs == {"Update:load", "Update:store", "Update:Unlock"}

\* the goroutines inside a mutating method of instance i
Mutators(i) == {t \in Threads : pc[t] \in MutatingPcs /\ loc[t].inst = i}

\* the goroutines inside a read accessor of instance i
Readers(i) == {t \in Threads : pc[t] \in ReadingPcs /\ loc[t].inst = i}

\* C1: on one instance no two mutating methods, and no mutating method and
\* read accessor, are inside their critical sections at the same time
MutualExclusion ==
    \A i \in Insts :
        /\ Cardinality(Mutators(i)) <= 1
        /\ Mutators(i) # {} => Readers(i) = {}

\* C2: the values MarshalJSON has read are those of one state of the
\* instance, a state before or after each concurrent mutating method (judged
\* once the concurrent methods have left the instance)
SnapshotConsistent ==
    \A t \in Threads :
        (pc[t] = "MarshalJSON:RUnlock" /\ Mutators(loc[t].inst) = {}) =>
            \E l \in cands[t] : loc[t].snap = MarshalJSON(l)

\* the durations of hist[i] that Update has applied to instance i so far
Applied(i) ==
    LET inside == {t \in Threads :
                     pc[t] \in UpdateBodyPcs /\ loc[t].inst = i}
    IN  IF inside = {} THEN hist[i]
        ELSE LET t == CHOOSE u \in inside : TRUE
             IN  SubSeq(hist[i], 1,
                        Len(hist[i]) - Len(loc[t].ds) + loc[t].k - 1)

\* C3: an instance that goroutines only Update holds what the calls, taken
\* in the order in which they got the lock, leave one after the other; when
\* all calls have returned, samples plus timeouts is the number of durations
\* submitted
ConcurrentUpdatesSerialize ==
    \A i \in Insts \ merged :
        /\ lat[i].stats = Update(ZeroLatencies, Applied(i)).stats
        /\ lat[i].timeouts = Update(ZeroLatencies, Applied(i)).timeouts
        /\ (\A t \in Threads :
                ~(pc[t] \in UpdateBodyPcs \union {"Update:Lock"}
                  /\ loc[t].inst = i)) =>
               lat[i].stats.samples + lat[i].timeouts = Len(hist[i])

\* one goroutine has applied the first of its two durations to an instance
\* while the other goroutine has called Update on the same instance
ConcurrentUpdatesWitness ==
    \E t \in Threads, u \in Threads :
        /\ t # u
        /\ pc[t] = "Update:load" /\ loc[t].k = 2
        /\ pc[u] = "Update:Lock"
        /\ loc[u].inst = loc[t].inst
        /\ loc[t].inst \notin merged

\* C4: a goroutine inside Update holds the write lock of its receiver from
\* before the first duration until after the last, no reader is inside the
\* receiver meanwhile, and what MarshalJSON returns for an instance that is
\* only updated is the state before or after whole calls
BatchUnderOneLock ==
    /\ \A t \in Threads :
           pc[t] \in UpdateBodyPcs =>
               /\ rw[loc[t].inst].writer = t
               /\ rw[loc[t].inst].readers = {}
               /\ Readers(loc[t].inst) = {}
    /\ \A r \in Threads :
           (/\ pc[r] = "MarshalJSON:RUnlock"
            /\ loc[r].inst \notin merged
            /\ Mutators(loc[r].inst) = {}) =>
               \E l \in cands[r] : loc[r].snap = MarshalJSON(l)

\* MarshalJSON has been called on an instance while its Update has applied
\* the first of two durations
BatchUnderOneLockWitness ==
    \E t \in Threads, r \in Threads :
        /\ pc[t] \in {"Update:load", "Update:store"}
        /\ loc[t].k = 2 /\ Len(loc[t].ds) = 2
        /\ pc[r] = "MarshalJSON:RLock"
        /\ loc[r].inst = loc[t].inst

\* ------------------------------------------------- properties under SeqSpec
\* the arguments of the Update call that made the latest step
LastBatch(h, hNew) == SubSeq(hNew, Len(h) + 1, Len(hNew))

\* Update called once per element of ds, in order
RECURSIVE UpdateEach(_, _)
UpdateEach(l, ds) ==
    IF ds = <<>> THEN l
    ELSE UpdateEach(Update(l, <<Head(ds)>>), Tail(ds))

\* ds without its k-th element
Without(ds, k) == SubSeq(ds, 1, k - 1) \o SubSeq(ds, k + 1, Len(ds))

\* an instance that holds no sample and no timeout
IsEmpty(l) == l.stats.samples = 0 /\ l.timeouts = 0

\* C5: one call Update(S) leaves the instance in the state that calling
\* Update once per element of S, in the same order, leaves it in
BatchEqualsSequential ==
    [][last'.op = "Update" =>
         LET i  == last'.inst
             ds == LastBatch(hist[i], hist'[i])
         IN  lat'[i] = UpdateEach(lat[i], ds)]_vars

\* a batch of two durations, a timeout first, has been ingested in one call
\* by an instance that already held a sample
BatchWitness ==
    /\ last.op = "Update" /\ last.n = 2
    /\ Len(hist[last.inst]) = 3
    /\ hist[last.inst][1] # 0
    /\ hist[last.inst][2] = 0
    /\ hist[last.inst][3] # 0
    /\ lat[last.inst].stats.samples = 2
    /\ lat[last.inst].timeouts = 1

\* what the partition test compares
PartitionView(l) ==
    [mean |-> Mean(l), stddev |-> StdDev(l), variance |-> Variance(l),
     slowest |-> Slowest(l), fastest |-> Fastest(l), range |-> Range(l),
     timeouts |-> Timeouts(l)]

\* C6: after s.Append(o), s reports the Mean, StdDev, Variance, Slowest,
\* Fastest, Range and Timeouts of one instance that ingested the durations
\* of both parts, whichever part is the receiver
PartitionInvariance ==
    last.op = "Append" =>
        PartitionView(lat[last.inst])
            = PartitionView(Update(ZeroLatencies, hist[last.inst]))

\* two parts that both hold samples and timeouts have been merged, and the
\* merged samples are not all equal
PartitionWitness ==
    /\ last.op = "Append"
    /\ lat[last.other].stats.samples >= 1
    /\ lat[last.inst].stats.samples > lat[last.other].stats.samples
    /\ lat[last.inst].timeouts > lat[last.other].timeouts
    /\ Range(lat[last.inst]) > 0

\* what the empty-donor test compares
IdentityView(l) ==
    [mean |-> Mean(l), variance |-> Variance(l), stddev |-> StdDev(l),
     slowest |-> Slowest(l), fastest |-> Fastest(l), range |-> Range(l),
     total |-> Total(l), timeouts |-> Timeouts(l)]

\* C7: Append of a donor without samples and timeouts leaves the receiver's
\* Mean, Variance, StdDev, Slowest, Fastest, Range, Total and Timeouts, and
\* its minimum and maximum, as they were
AppendEmptyDonor ==
    [][(last'.op = "Append" /\ IsEmpty(lat[last'.other])) =>
         LET s == last'.inst
         IN  /\ IdentityView(lat'[s]) = IdentityView(lat[s])
             /\ lat'[s].stats.min = lat[s].stats.min
             /\ lat'[s].stats.max = lat[s].stats.max]_vars

\* an empty donor has been appended to a receiver with samples and a timeout
AppendEmptyDonorWitness ==
    /\ last.op = "Append"
    /\ IsEmpty(lat[last.other])
    /\ lat[last.inst].stats.samples >= 2
    /\ lat[last.inst].timeouts >= 1
    /\ Fastest(lat[last.inst]) > 0

\* C8: Append of a donor with samples into an empty receiver gives the
\* receiver the donor's count, mean, m2, min, max, total and timeouts
AppendIntoEmptyReceiver ==
    [][(/\ last'.op = "Append"
        /\ IsEmpty(lat[last'.inst])
        /\ lat[last'.other].stats.samples > 0) =>
         /\ lat'[last'.inst].stats = lat[last'.other].stats
         /\ lat'[last'.inst].timeouts = lat[last'.other].timeouts]_vars

\* a donor with two samples and a timeout has been appended to a receiver
\* that had ingested nothing
AppendIntoEmptyReceiverWitness ==
    /\ last.op = "Append"
    /\ hist[last.inst] = hist[last.other]
    /\ lat[last.other].stats.samples = 2
    /\ lat[last.other].timeouts = 1
    /\ lat[last.inst].stats = lat[last.other].stats
    /\ lat[last.inst].timeouts = 1

\* C9: a zero duration at any position of the argument list of Update adds
\* exactly 1 to the timeouts and changes nothing else: the call leaves the
\* state that the call without that argument leaves, with one more timeout
TimeoutExclusion ==
    [][last'.op = "Update" =>
         LET i  == last'.inst
             ds == LastBatch(hist[i], hist'[i])
         IN  \A k \in 1..Len(ds) :
                 ds[k] = 0 =>
                     /\ lat'[i].timeouts
                            = Update(lat[i], Without(ds, k)).timeouts + 1
                     /\ lat'[i].stats = Update(lat[i], Without(ds, k)).stats
                     /\ lat'[i].duration = lat[i].duration]_vars

\* a timeout has been ingested as the second of two arguments by an instance
\* that held samples before
TimeoutWitness ==
    /\ last.op = "Update" /\ last.n = 2
    /\ Len(hist[last.inst]) = 3
    /\ hist[last.inst][1] # 0
    /\ hist[last.inst][2] # 0
    /\ hist[last.inst][3] = 0
    /\ lat[last.inst].stats.samples = 2
    /\ lat[last.inst].timeouts = 1
    /\ Mean(lat[last.inst]) > 0

\* C10: Throughput is count / duration in seconds when there are samples and
\* a duration > 0 is set; otherwise count / total when there are samples and
\* total > 0; otherwise 0
ThroughputSelection ==
    \A i \in Insts :
        LET l == lat[i]
            c == l.stats.samples
            t == Throughput(l)
        IN  /\ (c > 0 /\ l.duration > 0) =>
                   t[1] * l.duration = c * Second * t[2]
            /\ (c > 0 /\ l.duration = 0 /\ l.stats.total[1] > 0) =>
                   t[1] * l.stats.total[1] = c * l.stats.total[2] * t[2]
            /\ (c = 0 \/ (l.duration = 0 /\ l.stats.total[1] = 0)) =>
                   t = RZero
            /\ (last.op = "MarshalJSON" /\ last.inst = i) =>
                   ret.throughput = t

\* samples and a set duration that differs from the sum of the samples
ThroughputWitness ==
    \E i \in Insts :
        /\ lat[i].stats.samples > 0
        /\ lat[i].duration > 0
        /\ Seconds(lat[i].duration) # lat[i].stats.total
        /\ last.op = "MarshalJSON" /\ last.inst = i

\* the positions of h that hold a sample, a duration other than zero
Samples(h) == {k \in 1..Len(h) : h[k] # 0}

\* C11: a fresh instance, and an instance that has only taken timeouts and
\* SetDuration calls, returns 0 from Mean, StdDev, Variance, Slowest, Fastest
\* and Range, and 0.0 from Throughput
EmptyReportsZero ==
    \A i \in Insts :
        Samples(hist[i]) = {} =>
            /\ Mean(lat[i]) = 0
            /\ StdDev(lat[i]) = 0
            /\ Variance(lat[i]) = 0
            /\ Slowest(lat[i]) = 0
            /\ Fastest(lat[i]) = 0
            /\ Range(lat[i]) = 0
            /\ Throughput(lat[i]) = RZero
            /\ (last.op = "MarshalJSON" /\ last.inst = i) =>
                   ret.throughput = RZero

\* an instance with two timeouts, no sample and a set duration has been
\* marshalled
EmptyReportsZeroWitness ==
    \E i \in Insts :
        /\ Len(hist[i]) >= 2
        /\ Samples(hist[i]) = {}
        /\ lat[i].timeouts >= 2
        /\ lat[i].duration > 0
        /\ last.op = "MarshalJSON" /\ last.inst = i

\* C12: an instance that has ingested exactly one sample, by Update or by
\* Append of a one-sample donor, has Variance 0 and StdDev 0
SingleSampleNoSpread ==
    \A i \in Insts :
        Cardinality(Samples(hist[i])) = 1 =>
            /\ StatisticsVariance(lat[i].stats) = RZero
            /\ Variance(lat[i]) = 0
            /\ StdDev(lat[i]) = 0

\* a donor with one sample has been appended to a receiver that held a
\* timeout and no sample
SingleSampleWitness ==
    /\ last.op = "Append"
    /\ Cardinality(Samples(hist[last.inst])) = 1
    /\ lat[last.other].stats.samples = 1
    /\ lat[last.inst].timeouts > lat[last.other].timeouts
    /\ Mean(lat[last.inst]) > 1

\* C13: Append leaves the duration of the receiver as it was
AppendKeepsDuration ==
    [][last'.op = "Append" =>
         lat'[last'.inst].duration = lat[last'.inst].duration]_vars

\* a donor with samples and a set duration has been appended to a receiver
\* without a set duration
AppendKeepsDurationWitness ==
    /\ last.op = "Append"
    /\ lat[last.other].duration > 0
    /\ lat[last.other].stats.samples > 0
    /\ lat[last.inst].duration = 0

\* C14: after s.Append(o), s.Timeouts() is the sum of the Timeouts of s and
\* of o before the call
AppendAddsTimeouts ==
    [][last'.op = "Append" =>
         Timeouts(lat'[last'.inst])
             = Timeouts(lat[last'.inst]) + Timeouts(lat[last'.other])]_vars

\* a donor with a timeout and no sample has been appended to a receiver that
\* held a timeout
AppendAddsTimeoutsWitness ==
    /\ last.op = "Append"
    /\ lat[last.other].stats.samples = 0
    /\ lat[last.other].timeouts >= 1
    /\ lat[last.inst].timeouts > lat[last.other].timeouts

\* C15: an instance with at least one sample has min <= max, and Fastest and
\* Slowest report them in that order
ExtremesOrdered ==
    \A i \in Insts :
        lat[i].stats.samples >= 1 =>
            /\ ~RLt(lat[i].stats.max, lat[i].stats.min)
            /\ Fastest(lat[i]) <= Slowest(lat[i])

\* a donor with two different samples has been appended to a receiver
\* without samples
ExtremesOrderedWitness ==
    /\ last.op = "Append"
    /\ lat[last.inst].stats = lat[last.other].stats
    /\ lat[last.other].stats.samples = 2
    /\ Fastest(lat[last.inst]) > 0
    /\ Range(lat[last.inst]) > 0

\* the sum of the durations ds, in seconds; a timeout adds nothing
RECURSIVE SumSeconds(_)
SumSeconds(ds) ==
    IF ds = <<>> THEN RZero
    ELSE RAdd(Seconds(Head(ds)), SumSeconds(Tail(ds)))

SpreadNonNegative ==
    \A i \in Insts :
        /\ Finite(lat[i].stats.m2)
        /\ lat[i].stats.m2[1] >= 0
        /\ StatisticsVariance(lat[i].stats)[1] >= 0
        /\ Variance(lat[i]) >= 0
        /\ StdDev(lat[i]) >= 0

\* two parts of one sample each, with different samples, have been merged:
\* the m2 of the result is the spread between the two means
SpreadNonNegativeWitness ==
    /\ last.op = "Append"
    /\ lat[last.other].stats.samples = 1
    /\ lat[last.inst].stats.samples = 2
    /\ lat[last.other].stats.m2 = RZero
    /\ RLt(RZero, lat[last.inst].stats.m2)

\* the names of the report of MarshalJSON
ReportFields ==
    {"samples", "total", "mean", "stddev", "variance", "fastest", "slowest",
     "range", "throughput", "duration", "timeouts"}

\* C18: in every state every float64 the engine holds or returns is finite,
\* the square root has a non-negative argument, MarshalJSON returns its
\* report and no error, and an instance without samples reports zero values
EngineTotal ==
    \A i \in Insts :
        LET l == lat[i]
        IN  /\ \A f \in {"mean", "m2", "min", "max", "total"} :
                   Finite(l.stats[f])
            /\ Finite(StatisticsVariance(l.stats))
            /\ StatisticsVariance(l.stats)[1] >= 0
            /\ Finite(Throughput(l))
            /\ ~MarshalJSONError(l)
            /\ (last.op = "MarshalJSON" /\ last.inst = i) =>
                   DOMAIN ret = ReportFields
            /\ l.stats.samples = 0 =>
                   /\ Mean(l) = 0 /\ Variance(l) = 0 /\ StdDev(l) = 0
                   /\ Slowest(l) = 0 /\ Fastest(l) = 0 /\ Range(l) = 0
                   /\ Total(l) = 0 /\ Throughput(l) = RZero

\* an instance on which no method had been called has been marshalled, while
\* the other instance holds samples and a timeout
EngineTotalWitness ==
    \E i \in Insts, j \in Insts :
        /\ last.op = "MarshalJSON" /\ last.inst = i
        /\ hist[i] = <<>> /\ lat[i].duration = 0
        /\ DOMAIN ret = ReportFields
        /\ lat[j].stats.samples >= 2 /\ lat[j].timeouts >= 1

\* ------------------------------------------------ properties under ReadSpec
\* C20: a call of Mean, Variance, StdDev, Slowest, Fastest, Range, Total,
\* Timeouts, Throughput or MarshalJSON, after whatever calls came before it,
\* leaves count, mean, m2, min, max, total, timeouts and duration unchanged
ReadsChangeNothing ==
    [][last'.op \in Accessors \union {"MarshalJSON"} => lat' = lat]_vars

\* Timeouts has returned the count of an instance that holds two samples, a
\* timeout and a set duration
ReadsChangeNothingWitness ==
    /\ last.op = "Timeouts"
    /\ ret = 1
    /\ lat[last.inst].timeouts = 1
    /\ lat[last.inst].stats.samples = 2
    /\ lat[last.inst].duration > 0

\* ------------------------------------------------ properties under LiveSpec
\* no goroutine asks for the mutex of an instance while it holds that mutex,
\* and whenever a goroutine is inside a method some goroutine can take a step
NoSelfLockNoDeadlock ==
    /\ \A t \in Threads :
           pc[t] \in LockPcs =>
               /\ rw[loc[t].inst].writer # t
               /\ t \notin rw[loc[t].inst].readers
    /\ (\E t \in Threads : pc[t] # "idle") =>
           \E t \in Threads : CanRun(t)

\* C19: under fair scheduling every call of Update, SetDuration, Append and
\* MarshalJSON returns, whatever the other goroutine calls meanwhile on the
\* same or on the other instance; no call waits for a mutex it holds itself
\* and the goroutines never all wait
EveryCallReturns ==
    /\ []NoSelfLockNoDeadlock
    /\ \A t \in Threads : (pc[t] # "idle") ~> (pc[t] = "idle")

\* the two goroutines are inside s.Append(o) and o.Append(s) at the same time
EveryCallReturnsWitness ==
    \E t \in Threads, u \in Threads :
        /\ pc[t] = "Append:timeouts" /\ pc[u] = "Append:timeouts"
        /\ loc[t].inst = "s" /\ loc[t].other = "o"
        /\ loc[u].inst = "o" /\ loc[u].other = "s"

\* ------------------------------------- more properties under SeqSpec
\* C21: SetDuration(d) leaves the instance with the duration d, whatever
\* duration was recorded before, and with the accumulator and the timeout
\* counter it had; it touches no other instance; Update changes no duration
SetDurationFrame ==
    [][/\ last'.op = "SetDuration" =>
              /\ lat'[last'.inst].duration = last'.n
              /\ lat'[last'.inst].stats = lat[last'.inst].stats
              /\ lat'[last'.inst].timeouts = lat[last'.inst].timeouts
              /\ \A j \in Insts \ {last'.inst} : lat'[j] = lat[j]
       /\ last'.op = "Update" =>
              \A j \in Insts : lat'[j].duration = lat[j].duration]_vars

\* a second SetDuration has replaced a recorded span on an instance that
\* holds samples and timeouts
SetDurationFrameWitness ==
    /\ last.op = "SetDuration" /\ last.n = 0
    /\ lat[last.inst].duration = 0
    /\ lat[last.inst].stats.samples > 0
    /\ lat[last.inst].timeouts > 0
    /\ \E j \in Insts \ {last.inst} : lat[j].duration = MaxSpan

\* ---------------------------------------------- more properties under Spec
\* C22: the report MarshalJSON returns has the eleven fields and all of them
\* come from one state of the instance: the duration and the timeouts it
\* reads last belong with the samples and statistics it read first, so the
\* finished report is the report of the state at its first read or of the
\* state at its last read
ReportFromOneState ==
    [][\A t \in Threads :
           (pc[t] = "MarshalJSON:rest" /\ pc'[t] = "MarshalJSON:RUnlock") =>
               /\ DOMAIN loc'[t].snap = ReportFields
               /\ \/ loc'[t].snap = loc[t].snap
                  \/ loc'[t].snap = MarshalJSON(lat[loc[t].inst])]_vars

\* ------------------------------------- more properties under SeqSpec
\* C23: after any Update and Append calls the mean times the sample count is
\* the total, exactly; and an instance with a sample and no set duration has
\* the inverse of its mean, in seconds, as Throughput
InverseMean ==
    \A i \in Insts :
        LET l == lat[i]
        IN  l.stats.samples >= 1 =>
                /\ RMul(StatisticsMean(l.stats), RInt(l.stats.samples))
                       = l.stats.total
                /\ l.duration = 0 =>
                       RMul(Throughput(l), StatisticsMean(l.stats)) = RInt(1)

\* a receiver without a set duration holds, after an Append, samples of
\* different sizes whose mean is no whole number of ticks, and a timeout
InverseMeanWitness ==
    /\ last.op = "Append"
    /\ lat[last.inst].duration = 0
    /\ lat[last.inst].timeouts >= 1
    /\ lat[last.inst].stats.samples >= 2
    /\ lat[last.other].stats.samples >= 1
    /\ lat[last.inst].stats.min # lat[last.inst].stats.max
    /\ RMul(StatisticsMean(lat[last.inst].stats), RInt(Second))[2] # 1

\* C26: the sample count plus the timeouts of an instance is the number of
\* durations passed to Update on it and on the donors merged into it; each
\* duration counts once, a non-zero one as a sample and a zero as a timeout
EveryDurationCountedOnce ==
    \A i \in Insts :
        /\ lat[i].stats.samples + lat[i].timeouts = Len(hist[i])
        /\ lat[i].stats.samples = Cardinality(Samples(hist[i]))
        /\ lat[i].timeouts = Len(hist[i]) - Cardinality(Samples(hist[i]))

\* a receiver holds, after an Append, its own sample and timeout and the
\* donor's sample and timeout
EveryDurationCountedOnceWitness ==
    /\ last.op = "Append"
    /\ Len(hist[last.other]) >= 1
    /\ Len(hist[last.inst]) > Len(hist[last.other])
    /\ lat[last.inst].stats.samples >= 1
    /\ lat[last.inst].timeouts >= 2
    /\ lat[last.other].timeouts >= 1

\* C27: s.Append(o) with o distinct from s leaves the donor as it was: its
\* count, mean, m2, min, max, total, timeouts and duration after the call are
\* those before it, and the donor can be appended again elsewhere
AppendLeavesDonor ==
    [][(last'.op = "Append" /\ last'.other # last'.inst) =>
           /\ lat'[last'.other] = lat[last'.other]
           /\ hist'[last'.other] = hist[last'.other]]_vars

\* a donor with a sample, a timeout and a set duration has been appended to a
\* receiver that held samples of its own
AppendLeavesDonorWitness ==
    /\ last.op = "Append"
    /\ lat[last.other].stats.samples >= 1
    /\ lat[last.other].timeouts >= 1
    /\ lat[last.other].duration > 0
    /\ lat[last.inst].stats.samples > lat[last.other].stats.samples
    /\ lat[last.inst].timeouts = lat[last.other].timeouts

\* C30: no Update and no Append lowers the sample count or the timeouts of
\* its receiver; once the receiver holds a sample, none raises Fastest or
\* lowers Slowest, and so none shrinks Range
NeverShrinks ==
    [][last'.op \in {"Update", "Append"} =>
           LET b == lat[last'.inst]
               a == lat'[last'.inst]
           IN  /\ a.stats.samples >= b.stats.samples
               /\ Timeouts(a) >= Timeouts(b)
               /\ b.stats.samples >= 1 =>
                      /\ ~RLt(b.stats.min, a.stats.min)
                      /\ ~RLt(a.stats.max, b.stats.max)
                      /\ Fastest(a) <= Fastest(b)
                      /\ Slowest(a) >= Slowest(b)
                      /\ Range(a) >= Range(b)]_vars

\* an Update of two durations on an instance that held a sample before has
\* left it with three samples of different sizes
NeverShrinksWitness ==
    /\ last.op = "Update" /\ last.n = 2
    /\ lat[last.inst].stats.samples = 3
    /\ Fastest(lat[last.inst]) < Slowest(lat[last.inst])
    /\ Range(lat[last.inst]) > 0

\* ==================================================== the benchmark drivers
\* the engine before any driver has used it
EngineIdle ==
    /\ lat  = [i \in Insts |-> ZeroLatencies]
    /\ hist = [i \in Insts |-> <<>>]
    /\ last = NoCall
    /\ ret  = NoReturn
    /\ ConcInit

\* ------------------------------------------------- BlastSpec: Blast.Run
\* the zero time.Time{}; the wall clock starts after it
ZeroTime == 0

\* what the publish stream does during one run of N operations: the Send
\* that fails (N + 1: none), how many events the server answers, and whether
\* the stream fails once the server has sent its last answer
Outcomes(N) == [failAt : 1..(N + 1), answers : 0..N, breaks : BOOLEAN]

\* the readings time.Now() can return: the clock does not run backwards
Now(b) == {t \in {b.now, b.now + 1} : t <= MaxClock}

\* recv.Sub(sent) of time.Time
Sub(recv, sent) == recv - sent

\* Blast.Run is called with Operations = N
BlastInit ==
    /\ EngineIdle
    /\ bench = NoRun /\ sustain = NoRun
    /\ \E N \in 0..MaxOps : \E out \in Outcomes(N) :
           blast = [pc        |-> "Prepare",
                    N         |-> N,
                    out       |-> out,
                    now       |-> 1,
                    started   |-> ZeroTime,
                    duration  |-> 0,
                    latencies |-> <<>>,
                    sentat    |-> [i \in 1..N |-> ZeroTime],
                    recvat    |-> [i \in 1..N |-> ZeroTime],
                    sender    |-> [pc |-> "none", i |-> 1],
                    receiver  |-> [pc |-> "none", i |-> 1],
                    stream    |-> "none",
                    sent      |-> 0,
                    answered  |-> 0,
                    pending   |-> 0,
                    client    |-> "none",
                    err       |-> "none"]

\* a step of the driver leaves the engine and the other drivers alone
BlastFrame == UNCHANGED <<lat, hist, seqVars, concVars, bench, sustain>>

\* Run: b.Prepare(ctx) connects and opens the streams, or returns its error,
\* which Run returns before the deferred Close is registered
BlastPrepare(ok) ==
    /\ blast.pc = "Prepare"
    /\ blast' = IF ok
                THEN [blast EXCEPT !.pc = "start", !.stream = "open",
                                   !.client = "open"]
                ELSE [blast EXCEPT !.pc = "returned", !.err = "error"]
    /\ BlastFrame

\* Run: the slices are made, wg.Add(2), b.started = time.Now(), and the two
\* goroutines are started
BlastStart(t) ==
    /\ blast.pc = "start"
    /\ blast' = [blast EXCEPT
           !.pc = "wg.Wait", !.now = t, !.started = t,
           !.latencies = [i \in 1..blast.N |-> 0],
           !.sender.pc = IF blast.N = 0 THEN "done" ELSE "Send",
           !.receiver.pc = IF blast.N = 0 THEN "done" ELSE "Recv"]
    /\ BlastFrame

\* sender goroutine: b.pubs.Send(req) returns nil, or an error, after which
\* the goroutine logs and returns (wg.Done); a failed Send ends the stream
SenderSend ==
    /\ blast.sender.pc = "Send"
    /\ blast' = IF blast.stream = "open" /\ blast.sender.i # blast.out.failAt
                THEN [blast EXCEPT !.sender.pc = "stamp", !.sent = @ + 1]
                ELSE [blast EXCEPT !.sender.pc = "done", !.stream = "broken"]
    /\ BlastFrame

\* sender goroutine: sentat[i] = time.Now(), and the next round of the loop
SenderStamp(t) ==
    /\ blast.sender.pc = "stamp"
    /\ blast' = [blast EXCEPT
           !.now = t,
           !.sentat[blast.sender.i] = t,
           !.sender.i = @ + 1,
           !.sender.pc = IF blast.sender.i = blast.N THEN "done" ELSE "Send"]
    /\ BlastFrame

\* the server answers an event it has been sent
ServerReply ==
    /\ blast.stream = "open"
    /\ blast.answered < blast.sent
    /\ blast.answered < blast.out.answers
    /\ blast' = [blast EXCEPT !.answered = @ + 1, !.pending = @ + 1]
    /\ BlastFrame

\* the stream fails after the server's last answer
StreamBreak ==
    /\ blast.stream = "open" /\ blast.pc = "wg.Wait"
    /\ blast.out.breaks
    /\ blast.answered = blast.out.answers
    /\ blast' = [blast EXCEPT !.stream = "broken"]
    /\ BlastFrame

\* receiver goroutine: b.pubs.Recv() returns a reply that has arrived, or
\* the error of a stream that has failed, after which the goroutine logs and
\* returns (wg.Done); with neither, Recv does not return
ReceiverRecv ==
    /\ blast.receiver.pc = "Recv"
    /\ \/ /\ blast.pending > 0
          /\ blast' = [blast EXCEPT !.receiver.pc = "stamp",
                                    !.pending = @ - 1]
       \/ /\ blast.stream = "broken"
          /\ blast' = [blast EXCEPT !.receiver.pc = "done"]
    /\ BlastFrame

\* receiver goroutine: recvat[i] = time.Now(), and the next round of the loop
ReceiverStamp(t) ==
    /\ blast.receiver.pc = "stamp"
    /\ blast' = [blast EXCEPT
           !.now = t,
           !.recvat[blast.receiver.i] = t,
           !.receiver.i = @ + 1,
           !.receiver.pc = IF blast.receiver.i = blast.N
                           THEN "done" ELSE "Recv"]
    /\ BlastFrame

\* Run: wg.Wait() returns once both goroutines have called wg.Done, and
\* b.duration = time.Since(b.started)
BlastWait(t) ==
    /\ blast.pc = "wg.Wait"
    /\ blast.sender.pc = "done" /\ blast.receiver.pc = "done"
    /\ blast' = [blast EXCEPT !.pc = "latencies", !.now = t,
                              !.duration = Sub(t, blast.started)]
    /\ BlastFrame

\* Run: b.latencies[i] = recv.Sub(sentat[i]) for every index
BlastLatencies ==
    /\ blast.pc = "latencies"
    /\ blast' = [blast EXCEPT
           !.pc = "Close",
           !.latencies = [i \in 1..blast.N |->
                              Sub(blast.recvat[i], blast.sentat[i])]]
    /\ BlastFrame

\* Run: return nil, and the deferred b.Close()
BlastClose ==
    /\ blast.pc = "Close"
    /\ blast' = [blast EXCEPT !.pc = "returned", !.err = "nil",
                              !.stream = "closed", !.client = "closed"]
    /\ BlastFrame

\* Blast.Results after Run has returned nil: a new Latencies takes
\* Update(b.latencies...) and SetDuration(b.duration)
BlastResults ==
    /\ blast.pc = "returned" /\ blast.err = "nil"
    /\ blast' = [blast EXCEPT !.pc = "reported"]
    /\ lat'  = [lat EXCEPT !["s"] =
                   SetDuration(Update(ZeroLatencies, blast.latencies),
                               blast.duration)]
    /\ hist' = [hist EXCEPT !["s"] = blast.latencies]
    /\ UNCHANGED <<seqVars, concVars, bench, sustain>>

BlastNext ==
    \/ \E ok \in BOOLEAN : BlastPrepare(ok)
    \/ \E t \in Now(blast) : BlastStart(t)
    \/ SenderSend
    \/ \E t \in Now(blast) : SenderStamp(t)
    \/ ServerReply
    \/ StreamBreak
    \/ ReceiverRecv
    \/ \E t \in Now(blast) : ReceiverStamp(t)
    \/ \E t \in Now(blast) : BlastWait(t)
    \/ BlastLatencies
    \/ BlastClose
    \/ BlastResults

BlastSpec == BlastInit /\ [][BlastNext]_vars

\* ------------------------------------------------ properties under BlastSpec
\* C28: every latency Blast.Run computes, and Results passes to Update, is
\* non-negative, however the two goroutines interleave and also when one of
\* them stops early on an error
LatenciesNonNegative ==
    /\ \A i \in DOMAIN blast.latencies : blast.latencies[i] >= 0
    /\ \A k \in DOMAIN hist["s"] : hist["s"][k] >= 0

\* the driver, one of its goroutines or the stream has a step to take
BlastCanStep ==
    \/ blast.pc \in {"Prepare", "start", "latencies", "Close"}
    \/ blast.pc = "wg.Wait" /\ blast.sender.pc = "done"
                            /\ blast.receiver.pc = "done"
    \/ blast.sender.pc \in {"Send", "stamp"}
    \/ blast.receiver.pc = "stamp"
    \/ blast.receiver.pc = "Recv"
           /\ (blast.pending > 0 \/ blast.stream = "broken")
    \/ blast.stream = "open" /\ blast.answered < blast.sent
                             /\ blast.answered < blast.out.answers
    \/ blast.stream = "open" /\ blast.pc = "wg.Wait" /\ blast.out.breaks
                             /\ blast.answered = blast.out.answers

\* C29: Blast.Run returns for every outcome of the publish stream: until it
\* has returned, the driver, a goroutine or the stream can take a step, so
\* no goroutine waits for what never comes and wg.Wait returns; and the
\* duration is measured only after both goroutines have finished
BlastRunReturns ==
    /\ blast.pc \notin {"returned", "reported"} => BlastCanStep
    /\ blast.pc \in {"latencies", "Close"} =>
           blast.sender.pc = "done" /\ blast.receiver.pc = "done"

\* ----------------------------------------------- SustainSpec: Sustain.Run
\* Sustain.Run is called with Operations = N
SustainInit ==
    /\ EngineIdle
    /\ bench = NoRun /\ blast = NoRun
    /\ \E N \in 0..MaxOps :
           sustain = [pc        |-> "Prepare",
                      N         |-> N,
                      nevents   |-> 0,
                      published |-> 0,
                      ticks     |-> 0,
                      tick      |-> FALSE,
                      quit      |-> "empty",
                      ctxDone   |-> FALSE,
                      client    |-> "none",
                      err       |-> "nil",
                      ret       |-> "none"]

\* a step of the driver leaves the engine and the other drivers alone
SustainFrame == UNCHANGED <<lat, hist, seqVars, concVars, bench, blast>>

\* Run: b.Prepare(ctx) makes the client, or returns its error, which Run
\* returns; on success the deferred Close is registered, the quit channel is
\* made and notified, and the ticker is started
SustainPrepare(ok) ==
    /\ sustain.pc = "Prepare"
    /\ sustain' = IF ok
                  THEN [sustain EXCEPT !.pc = "select", !.client = "open"]
                  ELSE [sustain EXCEPT !.pc = "returned", !.err = "error",
                                       !.ret = "error"]
    /\ SustainFrame

\* the ticker sends on ticker.C, which holds one tick
Tick ==
    /\ sustain.pc \notin {"Prepare", "returned"}
    /\ ~sustain.tick /\ sustain.ticks < MaxTicks
    /\ sustain' = [sustain EXCEPT !.tick = TRUE, !.ticks = @ + 1]
    /\ SustainFrame

\* os.Interrupt is delivered to the quit channel, which holds one signal
Interrupt ==
    /\ sustain.pc \notin {"Prepare", "returned"}
    /\ sustain.quit = "empty"
    /\ sustain' = [sustain EXCEPT !.quit = "signal"]
    /\ SustainFrame

\* the context of the call is cancelled
Cancel ==
    /\ sustain.pc # "returned"
    /\ ~sustain.ctxDone
    /\ sustain' = [sustain EXCEPT !.ctxDone = TRUE]
    /\ SustainFrame

\* select: case <-ticker.C
SelectTick ==
    /\ sustain.pc = "select" /\ sustain.tick
    /\ sustain' = [sustain EXCEPT !.pc = "Publish", !.tick = FALSE]
    /\ SustainFrame

\* a round that leaves the loop only once more than N events are counted
SustainPublishOneMore(e) ==
    /\ sustain.pc = "Publish"
    /\ sustain' = [sustain EXCEPT
           !.published = @ + 1,
           !.err = e,
           !.nevents = @ + 1,
           !.pc = IF sustain.N > 0 /\ sustain.nevents + 1 > sustain.N
                  THEN "return nil" ELSE "select"]
    /\ SustainFrame

\* the ticker case: the event is published, err takes what Acked or Nacked
\* returned, nevents++, and the loop is left when N > 0 and nevents >= N
SustainPublish(e) ==
    /\ sustain.pc = "Publish"
    /\ sustain' = [sustain EXCEPT
           !.published = @ + 1,
           !.err = e,
           !.nevents = @ + 1,
           !.pc = IF sustain.N > 0 /\ sustain.nevents + 1 >= sustain.N
                  THEN "return nil" ELSE "select"]
    /\ SustainFrame

\* select: case <-quit: break sustain
SelectQuit ==
    /\ sustain.pc = "select" /\ sustain.quit = "signal"
    /\ sustain' = [sustain EXCEPT !.pc = "return nil", !.quit = "taken"]
    /\ SustainFrame

\* select: case <-ctx.Done(): return ctx.Err()
SelectDone ==
    /\ sustain.pc = "select" /\ sustain.ctxDone
    /\ sustain' = [sustain EXCEPT !.pc = "Close", !.err = "ctx.Err",
                                  !.ret = "ctx.Err"]
    /\ SustainFrame

\* after the loop: return nil
SustainReturnNil ==
    /\ sustain.pc = "return nil"
    /\ sustain' = [sustain EXCEPT !.pc = "Close", !.err = "nil",
                                  !.ret = "nil"]
    /\ SustainFrame

\* the deferred b.Close(): b.client.Close(), b.client = nil
SustainClose ==
    /\ sustain.pc = "Close"
    /\ sustain' = [sustain EXCEPT !.pc = "returned", !.client = "closed"]
    /\ SustainFrame

SustainNext ==
    \/ \E ok \in BOOLEAN : SustainPrepare(ok)
    \/ Tick
    \/ Interrupt
    \/ Cancel
    \/ SelectTick
    \/ \E e \in {"nil", "error"} : SustainPublish(e)
    \/ SelectQuit
    \/ SelectDone
    \/ SustainReturnNil
    \/ SustainClose

SustainSpec == SustainInit /\ [][SustainNext]_vars

\* --------------------------------------------- properties under SustainSpec
\* C25: with N > 0 Sustain.Run publishes at most N events, one for each tick
\* it takes, leaves the loop right after the N-th and returns nil; with N = 0
\* it returns only after it took the interrupt signal (nil) or saw the
\* context cancelled (ctx.Err()); whenever it returns after Prepare
\* succeeded, the client has been closed
SustainStops ==
    LET b == sustain
    IN  /\ b.published = b.nevents
        /\ b.published + (IF b.pc = "Publish" THEN 1 ELSE 0)
               + (IF b.tick THEN 1 ELSE 0) = b.ticks
        /\ b.N > 0 => b.published <= b.N
        /\ (b.N > 0 /\ b.nevents = b.N) =>
               /\ b.pc \in {"return nil", "Close", "returned"}
               /\ b.ret \in {"none", "nil"}
        /\ (b.pc = "returned" /\ b.ret = "nil") =>
               \/ b.N > 0 /\ b.nevents = b.N
               \/ b.quit = "taken"
        /\ (b.pc = "returned" /\ b.ret = "ctx.Err") => b.ctxDone
        /\ (b.pc = "returned" /\ b.N = 0) =>
               \/ b.ret = "nil" /\ b.quit = "taken"
               \/ b.ret = "ctx.Err" /\ b.ctxDone
               \/ b.ret = "error" /\ b.client = "none"
        /\ (b.pc \notin {"returned", "Close"} /\ b.client = "open") =>
               b.ret = "none"
        /\ (b.pc = "returned" /\ b.ret # "error") => b.client = "closed"
        /\ b.pc = "returned" => b.client # "open"

\* a run with N = MaxOps has returned nil after its N-th event, with no
\* interrupt taken, and its client is closed
SustainStopsWitness ==
    /\ sustain.pc = "returned" /\ sustain.ret = "nil"
    /\ sustain.N = MaxOps /\ sustain.published = MaxOps
    /\ sustain.quit # "taken"
    /\ sustain.client = "closed"

\* ------------------------------------------------- RunSpec: benchmarks.Run
\* Run(ctx, bench) is called with a fresh client and workload
RunInit ==
    /\ EngineIdle
    /\ sustain = NoRun /\ blast = NoRun
    /\ bench = [pc       |-> "Connect",
                client   |-> "new",
                workload |-> "new",
                deferred |-> FALSE,
                quit     |-> "none",
                waiter   |-> "none",
                stopped  |-> FALSE,
                ctxDone  |-> FALSE,
                ops      |-> 0,
                runs     |-> 0,
                ret      |-> "none"]

\* a step of Run leaves the engine and the other drivers alone
RunFrame == UNCHANGED <<lat, hist, seqVars, concVars, sustain, blast>>

\* Run: bench.Client().Connect(), and the return of its error
RunConnect(ok) ==
    /\ bench.pc = "Connect"
    /\ bench' = IF ok
                THEN [bench EXCEPT !.pc = "Prepare", !.client = "connected"]
                ELSE [bench EXCEPT !.pc = "returned", !.ret = "error"]
    /\ RunFrame

\* Run: bench.Workload().Prepare(), and the return of its error; on success
\* the cleanup is deferred, the quit channel is made and notified, and the
\* goroutine that waits for the signal is started
RunPrepare(ok) ==
    /\ bench.pc = "Prepare"
    /\ bench' = IF ok
                THEN [bench EXCEPT !.pc = "bench.Run",
                                   !.workload = "prepared",
                                   !.deferred = TRUE,
                                   !.quit = "empty",
                                   !.waiter = "<-quit"]
                ELSE [bench EXCEPT !.pc = "returned", !.ret = "error"]
    /\ RunFrame

\* os.Interrupt is delivered to the quit channel, which holds one signal
RunInterrupt ==
    /\ bench.quit = "empty"
    /\ bench' = [bench EXCEPT !.quit = "signal"]
    /\ RunFrame

\* the goroutine: <-quit; bench.Stop(ctx)
RunStop ==
    /\ bench.waiter = "<-quit" /\ bench.quit = "signal"
    /\ bench' = [bench EXCEPT !.waiter = "done", !.quit = "empty",
                              !.stopped = TRUE]
    /\ RunFrame

\* the deadline of ctx passes, or ctx is cancelled
RunCancel ==
    /\ bench.pc # "returned" /\ ~bench.ctxDone
    /\ bench' = [bench EXCEPT !.ctxDone = TRUE]
    /\ RunFrame

\* bench.Run(ctx) is entered once, and executes a request of the workload
\* on the client, until it is stopped or ctx is done
BenchExec ==
    /\ bench.pc = "bench.Run"
    /\ bench.ops < MaxOps /\ ~bench.stopped /\ ~bench.ctxDone
    /\ bench' = [bench EXCEPT !.ops = @ + 1, !.runs = 1]
    /\ RunFrame

\* Run: bench.Run(ctx) returns nil, or an error, which Run returns
BenchRunReturns(ok) ==
    /\ bench.pc = "bench.Run"
    /\ bench' = IF ok
                THEN [bench EXCEPT !.pc = "Results", !.runs = 1]
                ELSE [bench EXCEPT !.pc = "deferred", !.runs = 1,
                                   !.ret = "error"]
    /\ RunFrame

\* Run: return bench.Results()
RunResults(ok) ==
    /\ bench.pc = "Results"
    /\ bench' = [bench EXCEPT !.pc = "deferred",
                              !.ret = IF ok THEN "metrics" ELSE "error"]
    /\ RunFrame

\* the deferred function: bench.Workload().Release()
RunRelease ==
    /\ bench.pc = "deferred" /\ bench.deferred
    /\ bench' = [bench EXCEPT !.pc = "Close", !.workload = "released"]
    /\ RunFrame

\* the deferred function: bench.Client().Close(), and Run has returned
RunClose ==
    /\ bench.pc = "Close"
    /\ bench' = [bench EXCEPT !.pc = "returned", !.client = "closed"]
    /\ RunFrame

RunNext ==
    \/ \E ok \in BOOLEAN : RunConnect(ok)
    \/ \E ok \in BOOLEAN : RunPrepare(ok)
    \/ RunInterrupt
    \/ RunStop
    \/ RunCancel
    \/ BenchExec
    \/ \E ok \in BOOLEAN : BenchRunReturns(ok)
    \/ \E ok \in BOOLEAN : RunResults(ok)
    \/ RunRelease
    \/ RunClose

RunSpec == RunInit /\ [][RunNext]_vars

\* ------------------------------------------------- properties under RunSpec
\* C24: whenever Run returns after the client was connected, the workload
\* has been released and the client closed; and bench.Run runs only after
\* Connect and Prepare both succeeded
RunCleansUp ==
    /\ (bench.pc = "returned" /\ bench.client # "new") =>
           bench.workload = "released" /\ bench.client = "closed"
    /\ (bench.pc = "bench.Run" \/ bench.runs > 0) =>
           /\ bench.client # "new"
           /\ bench.workload # "new"

====
